---------------------------- MODULE Spec2Model ----------------------------
(***************************************************************************)
(* Registration, login and profile management of the Flask application     *)
(* (app/routes.py) together with its validation helpers (app/utils.py).    *)
(*                                                                         *)
(* Text is a sequence of one-character strings.  A JSON value of a request *)
(* body is a record [t, s]: t is its JSON type ("str", "num") or "absent"  *)
(* when the key is not in the body, s is the text str() yields for it.     *)
(*                                                                         *)
(* A handler is one atomic step, except register, which reads the table    *)
(* (the existence check) and writes it (the commit) in two steps, so that  *)
(* registrations overlap.  The rate limiter, the logger and the response   *)
(* headers are left out.                                                   *)
(***************************************************************************)
EXTENDS Integers, Sequences, FiniteSets, Bags, TLC

VARIABLES
    users,      \* the User table, in insertion order (id = position)
    pending,    \* bag of register requests between existence check and commit
    last,       \* the request completed last, and the response to it
    submitted,  \* history: per user id, the email and password sent to register
    arg,        \* argument of the utility function under test
    ret         \* what the utility function returned for arg

vars == <<users, pending, last, submitted, arg, ret>>

httpVars == <<users, pending, last, submitted>>
pureVars == <<arg, ret>>

-----------------------------------------------------------------------------
(* Bounds of the model.                                                    *)

MaxPending == 2     \* register handlers that may be in flight together
MaxArgLen  == 8     \* longest text handed to a utility function
MaxTextLen == 5     \* longest text handed to sanitize_input on its own

-----------------------------------------------------------------------------
(* Character classes of the regular expressions in app/utils.py.           *)

UpperChars ==
    {"A","B","C","D","E","F","G","H","I","J","K","L","M",
     "N","O","P","Q","R","S","T","U","V","W","X","Y","Z"}

LowerChars ==
    {"a","b","c","d","e","f","g","h","i","j","k","l","m",
     "n","o","p","q","r","s","t","u","v","w","x","y","z"}

DigitChars == {"0","1","2","3","4","5","6","7","8","9"}

SpecialChars ==
    {"!","@","#","$","%","^","&","*","(",")",",",".","?","\"",":","{","}","|","<",">"}

EmailLocalChars  == UpperChars \cup LowerChars \cup DigitChars \cup {".","_","%","+","-"}
EmailDomainChars == UpperChars \cup LowerChars \cup DigitChars \cup {".","-"}
EmailTldChars    == UpperChars \cup LowerChars

WhitespaceChars == {" ", "\t", "\n", "\r"}

-----------------------------------------------------------------------------
(* Text helpers.                                                           *)

HasChar(s, class) == \E i \in 1..Len(s) : s[i] \in class

AllIn(s, lo, hi, class) == \A i \in lo..hi : s[i] \in class

StartsWith(s, pat) ==
    /\ Len(s) >= Len(pat)
    /\ SubSeq(s, 1, Len(pat)) = pat

\* str.replace(pat, ""): every non-overlapping occurrence, left to right.
RECURSIVE Remove(_, _)
Remove(s, pat) ==
    IF Len(s) < Len(pat) THEN s
    ELSE IF StartsWith(s, pat) THEN Remove(SubSeq(s, Len(pat) + 1, Len(s)), pat)
    ELSE <<Head(s)>> \o Remove(Tail(s), pat)

\* str.strip(): leading and trailing whitespace removed.
RECURSIVE LStrip(_)
LStrip(s) ==
    IF s # <<>> /\ Head(s) \in WhitespaceChars THEN LStrip(Tail(s)) ELSE s

RECURSIVE RStrip(_)
RStrip(s) ==
    IF s # <<>> /\ s[Len(s)] \in WhitespaceChars
    THEN RStrip(SubSeq(s, 1, Len(s) - 1)) ELSE s

Strip(s) == RStrip(LStrip(s))

\* html.escape(s, quote=False): the two quote characters are left alone.
EscapeChar_noquote(c) ==
    CASE c = "&"  -> <<"&","a","m","p",";">>
      [] c = "<"  -> <<"&","l","t",";">>
      [] c = ">"  -> <<"&","g","t",";">>
      [] OTHER    -> <<c>>

\* html.escape(s, quote=True), one character at a time.
EscapeChar(c) ==
    CASE c = "&"  -> <<"&","a","m","p",";">>
      [] c = "<"  -> <<"&","l","t",";">>
      [] c = ">"  -> <<"&","g","t",";">>
      [] c = "\"" -> <<"&","q","u","o","t",";">>
      [] c = "'"  -> <<"&","#","x","2","7",";">>
      [] OTHER    -> <<c>>

RECURSIVE HtmlEscape(_)
HtmlEscape(s) ==
    IF s = <<>> THEN <<>> ELSE EscapeChar(Head(s)) \o HtmlEscape(Tail(s))

Contains(s, pat) ==
    \E i \in 1..(Len(s) - Len(pat) + 1) : SubSeq(s, i, i + Len(pat) - 1) = pat

\* The part of s before the first occurrence of character c: s.split(c)[0].
RECURSIVE SplitFirst(_, _)
SplitFirst(s, c) ==
    IF s = <<>> \/ Head(s) = c THEN <<>>
    ELSE <<Head(s)>> \o SplitFirst(Tail(s), c)

-----------------------------------------------------------------------------
(* app/utils.py                                                            *)

MinPasswordLen == 8

\* re.match(r'^[a-zA-Z0-9._%+-]+@[a-zA-Z0-9.-]+\.[a-zA-Z]{2,}$', email);
\* '$' also matches before one trailing newline.
EmailMatches(s) ==
    \E at \in 2..Len(s) : \E dot \in (at + 2)..Len(s) :
        /\ AllIn(s, 1, at - 1, EmailLocalChars)
        /\ s[at] = "@"
        /\ AllIn(s, at + 1, dot - 1, EmailDomainChars)
        /\ s[dot] = "."
        /\ Len(s) - dot >= 2
        /\ AllIn(s, dot + 1, Len(s), EmailTldChars)

validate_email(email) ==
    \/ EmailMatches(email)
    \/ /\ email # <<>>
       /\ email[Len(email)] = "\n"
       /\ EmailMatches(SubSeq(email, 1, Len(email) - 1))

MsgTooShort  == "Password must be at least 8 characters long"
MsgNoUpper   == "Password must contain at least one uppercase letter"
MsgNoLower   == "Password must contain at least one lowercase letter"
MsgNoDigit   == "Password must contain at least one digit"
MsgNoSpecial == "Password must contain at least one special character"
MsgValid     == "Password is valid"

\* validate_password with the lowercase rule tested before the uppercase rule.
validate_password_swapped(password) ==
    IF Len(password) < MinPasswordLen THEN <<FALSE, MsgTooShort>>
    ELSE IF ~HasChar(password, LowerChars) THEN <<FALSE, MsgNoLower>>
    ELSE IF ~HasChar(password, UpperChars) THEN <<FALSE, MsgNoUpper>>
    ELSE IF ~HasChar(password, DigitChars) THEN <<FALSE, MsgNoDigit>>
    ELSE IF ~HasChar(password, SpecialChars) THEN <<FALSE, MsgNoSpecial>>
    ELSE <<TRUE, MsgValid>>

validate_password(password) ==
    IF Len(password) < MinPasswordLen THEN <<FALSE, MsgTooShort>>
    ELSE IF ~HasChar(password, UpperChars) THEN <<FALSE, MsgNoUpper>>
    ELSE IF ~HasChar(password, LowerChars) THEN <<FALSE, MsgNoLower>>
    ELSE IF ~HasChar(password, DigitChars) THEN <<FALSE, MsgNoDigit>>
    ELSE IF ~HasChar(password, SpecialChars) THEN <<FALSE, MsgNoSpecial>>
    ELSE <<TRUE, MsgValid>>

\* dangerous_chars, removed one after the other in this order.
DangerousChars ==
    << <<";">>, <<"-","-">>, <<"/","*">>, <<"*","/">>,
       <<"x","p","_">>, <<"s","p","_">> >>

RECURSIVE RemoveAll(_, _, _)
RemoveAll(s, pats, i) ==
    IF i > Len(pats) THEN s ELSE RemoveAll(Remove(s, pats[i]), pats, i + 1)

\* sanitize_input on the text str() yields for its argument.
sanitize_text(s) ==
    IF s = <<>> THEN <<>>
    ELSE RemoveAll(HtmlEscape(Strip(s)), DangerousChars, 1)


-----------------------------------------------------------------------------
(* JSON values, requests and responses.                                    *)

Str(s)  == [t |-> "str", s |-> s]
Num(s)  == [t |-> "num", s |-> s]
Absent  == [t |-> "absent", s |-> <<>>]

\* Authorization header: none, a string that is no JWT, or a token this
\* service signed for subject sub, expired or not when it is presented.
NoToken        == [kind |-> "none", sub |-> 0]
MalformedToken == [kind |-> "malformed", sub |-> 0]
ValidToken(id)   == [kind |-> "valid", sub |-> id]
ExpiredToken(id) == [kind |-> "expired", sub |-> id]

Request(route, json, email, password, username, token) ==
    [route |-> route, json |-> json, email |-> email, password |-> password,
     username |-> username, token |-> token]

NoRequest == Request("none", TRUE, Absent, Absent, Absent, NoToken)

NoUser == [id |-> 0, email |-> <<>>, username |-> <<>>, created_at |-> 0]

Response(status, msg, user_id, token, user, list) ==
    [status |-> status, msg |-> msg, user_id |-> user_id,
     access_token |-> token, user |-> user, users |-> list]

ErrorResponse(status, msg) == Response(status, msg, 0, NoToken, NoUser, <<>>)

NoResponse == ErrorResponse(0, "")

\* Control reaches the next statement of the handler.
Continue == ErrorResponse(0, "continue")

-----------------------------------------------------------------------------
(* Inputs.                                                                 *)

EmailA      == Str(<<"a","@","b",".","c","o">>)
EmailADash  == Str(<<"a","-","-","@","b",".","c","o">>)
EmailC      == Str(<<"c","@","d",".","i","o">>)
EmailInject == Str(<<"a","d","m","i","n","'","-","-">>)

PasswordGood   == Str(<<"A","b","c","1","2","3","4","5","!">>)
PasswordInject == Str(<<"'"," ","O","R"," ","'","1","'","=","'","1">>)
PasswordNumber == Num(<<"1","2","3","4","5","6","7","8">>)

UsernameScript == Str(<<"<","s","c","r","i","p","t",">">>)
UsernameBold   == Str(<<"<","b",">">>)
UsernameDashes == Str(<<"x","-","-">>)

\* The JSON values the request bodies are made of.
JsonValues ==
    {EmailA, EmailADash, EmailC, EmailInject,
     PasswordGood, PasswordInject, PasswordNumber,
     UsernameScript, UsernameBold, UsernameDashes, Absent}

\* sanitize_input on a JSON value, tabulated over JsonValues.
SanitizedValue == [v \in JsonValues |-> sanitize_text(v.s)]

sanitize_input(v) == SanitizedValue[v]

\* A body that is not JSON carries no field.
Malformed(route) == Request(route, FALSE, Absent, Absent, Absent, NoToken)

RegisterRequests ==
    {Malformed("register")}
        \cup {Request("register", TRUE, e, PasswordGood, u, NoToken) :
                e \in {EmailA, EmailADash, EmailC}, u \in {Absent, UsernameScript}}
        \cup {Request("register", TRUE, e, p, Absent, NoToken) :
                e \in {EmailInject, Absent}, p \in {PasswordGood}}
        \cup {Request("register", TRUE, e, p, Absent, NoToken) :
                e \in {EmailA}, p \in {PasswordInject, PasswordNumber, Absent}}

LoginRequests ==
    {Malformed("login")}
        \cup {Request("login", TRUE, e, p, Absent, NoToken) :
                e \in {EmailA, EmailADash, EmailC, EmailInject},
                p \in {PasswordGood, PasswordInject}}
        \cup {Request("login", TRUE, e, p, Absent, NoToken) :
                e \in {EmailA, EmailC}, p \in {PasswordNumber}}
        \cup {Request("login", TRUE, Absent, PasswordGood, Absent, NoToken),
              Request("login", TRUE, EmailA, Absent, Absent, NoToken)}

\* Tokens are stateless: login changes nothing on the server, so a token
\* can be held for every user that exists.
Tokens(tbl) ==
    {NoToken, MalformedToken}
        \cup {ValidToken(id) : id \in 1..Len(tbl)}
        \cup {ExpiredToken(id) : id \in 1..Len(tbl)}

ReadRequests(route, tbl) ==
    {Request(route, TRUE, Absent, Absent, Absent, t) : t \in Tokens(tbl)}

UpdateRequests(tbl) ==
    {Request("update_profile", TRUE, Absent, Absent, UsernameBold, t) :
        t \in Tokens(tbl)}
        \cup {Request("update_profile", TRUE, Absent, Absent, u, ValidToken(id)) :
                u \in {Absent, UsernameDashes}, id \in 1..Len(tbl)}
        \cup {Request("update_profile", FALSE, Absent, Absent, Absent, ValidToken(id)) :
                id \in 1..Len(tbl)}

PureChars == {"A", "a", "1", "!", "_"}

\* The characters html.escape rewrites, those of the sequences
\* sanitize_input removes, whitespace and a letter.
TextChars == {"<", ">", "\"", "'", "&", ";", "-", " ", "a"}

-----------------------------------------------------------------------------
(* Storage and library calls used by app/routes.py.                        *)

\* generate_password_hash(password, method='pbkdf2:sha256'): a one-way
\* digest, taken to be collision free.
generate_password_hash(password) == [method |-> "pbkdf2:sha256", of |-> password]

\* check_password_hash(pwhash, password) for a str password.
check_password_hash(pwhash, password) ==
    generate_password_hash(password) = pwhash

\* User.query.filter_by(email=email).first(): the matching rows.
filter_by_email(tbl, email) == {i \in 1..Len(tbl) : tbl[i].email = email}

\* User.query.get(id)
query_get(tbl, id) == IF id \in 1..Len(tbl) THEN {id} ELSE {}

\* The public fields the handlers put in a response.
PublicBrief(u) ==
    [id |-> u.id, email |-> u.email, username |-> u.username, created_at |-> 0]

PublicFull(u) ==
    [id |-> u.id, email |-> u.email, username |-> u.username,
     created_at |-> u.created_at]

\* @jwt_required(): the response when the token is refused, else Continue.
jwt_required(token) ==
    CASE token.kind = "none"      -> ErrorResponse(401, "Missing Authorization Header")
      [] token.kind = "malformed" -> ErrorResponse(422, "Not enough segments")
      [] token.kind = "expired"   -> ErrorResponse(401, "Token has expired")
      [] OTHER                    -> Continue

\* get_jwt_identity()
get_jwt_identity(token) == token.sub

-----------------------------------------------------------------------------
(* register: lines 52-72, up to and including the existence check.  The    *)
(* result is the response returned there, or Continue.  An exception       *)
(* raised inside the try block is answered by the except clause.           *)

RegistrationFailed == ErrorResponse(500, "Registration failed")

\* register_validate without the existence check of lines 71-72.
register_validate_nocheck(r, tbl) ==
    IF ~r.json THEN RegistrationFailed
    ELSE IF r.email.t = "absent" \/ r.password.t = "absent"
    THEN ErrorResponse(400, "Email and password required")
    ELSE LET email == sanitize_input(r.email) IN
        IF ~validate_email(email)
        THEN ErrorResponse(400, "Invalid email format")
        ELSE IF r.password.t # "str" THEN RegistrationFailed
        ELSE LET vp == validate_password(r.password.s) IN
            IF ~vp[1] THEN ErrorResponse(400, vp[2])
            ELSE Continue

register_validate(r, tbl) ==
    IF ~r.json THEN RegistrationFailed          \* get_json() raises BadRequest
    ELSE IF r.email.t = "absent" \/ r.password.t = "absent"
    THEN ErrorResponse(400, "Email and password required")
    ELSE LET email == sanitize_input(r.email) IN
        IF ~validate_email(email)
        THEN ErrorResponse(400, "Invalid email format")
        ELSE IF r.password.t # "str" THEN RegistrationFailed   \* len() raises
        ELSE LET vp == validate_password(r.password.s) IN
            IF ~vp[1] THEN ErrorResponse(400, vp[2])
            ELSE IF filter_by_email(tbl, email) # {}
            THEN ErrorResponse(400, "User already exists")
            ELSE Continue

\* The row register builds (lines 75-80).  The model class assigns the id
\* (the next key) and created_at (here the rank of the insertion).
new_user(r, tbl) ==
    LET email == sanitize_input(r.email) IN
    [id         |-> Len(tbl) + 1,
     email      |-> email,
     username   |-> IF r.username.t = "absent"
                    THEN SplitFirst(email, "@") ELSE r.username.s,
     password   |-> generate_password_hash(r.password.s),
     created_at |-> Len(tbl) + 1]

\* The unique index on User.email: the insert of row is refused.
unique_violation(tbl, row) == filter_by_email(tbl, row.email) # {}

\* db.session.add + commit (lines 82-95).  The commit raises when the
\* storage fails or when the unique index on email refuses the row; the
\* except clause then rolls back.
\* register_commit whose failed commit leaves the added row behind.
register_commit_norollback(r, tbl, fault) ==
    LET row == new_user(r, tbl) IN
    IF fault \/ unique_violation(tbl, row)
    THEN [resp |-> RegistrationFailed, users |-> Append(tbl, row)]
    ELSE [resp |-> Response(201, "User registered successfully", row.id,
                            NoToken, NoUser, <<>>),
          users |-> Append(tbl, row)]

register_commit(r, tbl, fault) ==
    LET row == new_user(r, tbl) IN
    IF fault \/ unique_violation(tbl, row)
    THEN [resp |-> RegistrationFailed, users |-> tbl]
    ELSE [resp |-> Response(201, "User registered successfully", row.id,
                            NoToken, NoUser, <<>>),
          users |-> Append(tbl, row)]

-----------------------------------------------------------------------------
(* login (lines 101-133)                                                   *)

LoginFailed == ErrorResponse(500, "Login failed")

\* login that looks the user up and does not test the password.
login_nopassword(r, tbl) ==
    IF ~r.json THEN LoginFailed
    ELSE IF r.email.t = "absent" \/ r.password.t = "absent"
    THEN ErrorResponse(400, "Email and password required")
    ELSE LET found == filter_by_email(tbl, sanitize_input(r.email)) IN
        IF found = {} THEN ErrorResponse(401, "Invalid credentials")
        ELSE LET user == tbl[CHOOSE i \in found : \A j \in found : i <= j] IN
            Response(200, "Login successful", 0, ValidToken(user.id),
                     PublicBrief(user), <<>>)

\* login that looks the user up by the email as it came.
login_rawemail(r, tbl) ==
    IF ~r.json THEN LoginFailed
    ELSE IF r.email.t = "absent" \/ r.password.t = "absent"
    THEN ErrorResponse(400, "Email and password required")
    ELSE LET found == filter_by_email(tbl, r.email.s) IN
        IF found = {} THEN ErrorResponse(401, "Invalid credentials")
        ELSE LET user == tbl[CHOOSE i \in found : \A j \in found : i <= j] IN
            IF r.password.t # "str" THEN LoginFailed
            ELSE IF ~check_password_hash(user.password, r.password.s)
            THEN ErrorResponse(401, "Invalid credentials")
            ELSE Response(200, "Login successful", 0, ValidToken(user.id),
                          PublicBrief(user), <<>>)

login(r, tbl) ==
    IF ~r.json THEN LoginFailed                 \* get_json() raises BadRequest
    ELSE IF r.email.t = "absent" \/ r.password.t = "absent"
    THEN ErrorResponse(400, "Email and password required")
    ELSE LET found == filter_by_email(tbl, sanitize_input(r.email)) IN
        IF found = {} THEN ErrorResponse(401, "Invalid credentials")
        ELSE LET user == tbl[CHOOSE i \in found : \A j \in found : i <= j] IN
            IF r.password.t # "str" THEN LoginFailed   \* check_password_hash raises
            ELSE IF ~check_password_hash(user.password, r.password.s)
            THEN ErrorResponse(401, "Invalid credentials")
            ELSE Response(200, "Login successful", 0, ValidToken(user.id),
                          PublicBrief(user), <<>>)

-----------------------------------------------------------------------------
(* The protected routes (lines 136-216).  jwt_required runs before the     *)
(* handler and answers by itself when it refuses the token.                *)

get_profile_body(r, tbl) ==
    LET found == query_get(tbl, get_jwt_identity(r.token)) IN
    IF found = {} THEN ErrorResponse(404, "User not found")
    ELSE LET user == tbl[CHOOSE i \in found : TRUE] IN
        Response(200, "", 0, NoToken, PublicFull(user), <<>>)

get_profile(r, tbl) ==
    IF jwt_required(r.token) # Continue THEN jwt_required(r.token)
    ELSE get_profile_body(r, tbl)

MinUsernameLen == 3

update_profile_body(r, tbl, fault) ==
    LET found == query_get(tbl, get_jwt_identity(r.token)) IN
    IF found = {}
    THEN [resp |-> ErrorResponse(404, "User not found"), users |-> tbl]
    ELSE LET id   == CHOOSE i \in found : TRUE
             name == sanitize_input(r.username)
             failed == [resp |-> ErrorResponse(500, "Failed to update profile"),
                        users |-> tbl]
         IN
        IF ~r.json THEN failed                  \* get_json() raises BadRequest
        ELSE IF r.username.t # "absent" /\ Len(name) < MinUsernameLen
        THEN [resp |-> ErrorResponse(400, "Username must be at least 3 characters"),
              users |-> tbl]
        ELSE IF fault THEN failed               \* commit raises, rollback
        ELSE LET tbl2 == IF r.username.t # "absent"
                         THEN [tbl EXCEPT ![id].username = name] ELSE tbl
             IN [resp |-> Response(200, "Profile updated successfully", 0, NoToken,
                                   PublicBrief(tbl2[id]), <<>>),
                 users |-> tbl2]

\* update_profile without @jwt_required().
update_profile_unguarded(r, tbl, fault) == update_profile_body(r, tbl, fault)

\* update_profile that stores the username as supplied.
update_profile_raw(r, tbl, fault) ==
    LET out == update_profile_body(r, tbl, fault)
        id  == get_jwt_identity(r.token)
    IN IF jwt_required(r.token) # Continue
       THEN [resp |-> jwt_required(r.token), users |-> tbl]
       ELSE IF out.resp.status = 200 /\ r.username.t # "absent"
       THEN [resp  |-> out.resp,
             users |-> [out.users EXCEPT ![id].username = r.username.s]]
       ELSE out

update_profile(r, tbl, fault) ==
    IF jwt_required(r.token) # Continue
    THEN [resp |-> jwt_required(r.token), users |-> tbl]
    ELSE update_profile_body(r, tbl, fault)

\* 'count' is the length of the list.
list_users_body(tbl) ==
    Response(200, "", 0, NoToken, NoUser,
             [i \in 1..Len(tbl) |-> PublicFull(tbl[i])])

list_users(r, tbl) ==
    IF jwt_required(r.token) # Continue THEN jwt_required(r.token)
    ELSE list_users_body(tbl)

-----------------------------------------------------------------------------
(* The state machine.                                                      *)

NoRet == [fn |-> "none", ok |-> FALSE, msg |-> "", out |-> <<>>]

Init ==
    /\ users = <<>>
    /\ pending = EmptyBag
    /\ last = [req |-> NoRequest, resp |-> NoResponse]
    /\ submitted = <<>>
    /\ arg = <<>>
    /\ ret = NoRet

Done(r, resp) == last' = [req |-> r, resp |-> resp]

\* POST /auth/register, up to the existence check.
Register ==
    /\ \E r \in RegisterRequests :
        LET v == register_validate(r, users) IN
        IF v = Continue
        THEN /\ BagCardinality(pending) < MaxPending
             /\ pending' = pending (+) SetToBag({r})
             /\ UNCHANGED last
        ELSE /\ Done(r, v)
             /\ UNCHANGED pending
    /\ UNCHANGED <<users, submitted, pureVars>>

\* POST /auth/register, from the hashing of the password to the response.
RegisterCommit ==
    /\ \E r \in BagToSet(pending), fault \in BOOLEAN :
        LET out == register_commit(r, users, fault) IN
        /\ users' = out.users
        /\ Done(r, out.resp)
        /\ pending' = pending (-) SetToBag({r})
        /\ submitted' = IF out.resp.status = 201
                        THEN Append(submitted, [email |-> r.email,
                                                password |-> r.password])
                        ELSE submitted
    /\ UNCHANGED pureVars

\* POST /auth/login
Login ==
    /\ \E r \in LoginRequests : Done(r, login(r, users))
    /\ UNCHANGED <<users, pending, submitted, pureVars>>

\* GET /api/profile
GetProfile ==
    /\ \E r \in ReadRequests("get_profile", users) : Done(r, get_profile(r, users))
    /\ UNCHANGED <<users, pending, submitted, pureVars>>

\* PUT /api/profile
UpdateProfile ==
    /\ \E r \in UpdateRequests(users), fault \in BOOLEAN :
        LET out == update_profile(r, users, fault) IN
        /\ users' = out.users
        /\ Done(r, out.resp)
    /\ UNCHANGED <<pending, submitted, pureVars>>

\* GET /api/users
ListUsers ==
    /\ \E r \in ReadRequests("list_users", users) : Done(r, list_users(r, users))
    /\ UNCHANGED <<users, pending, submitted, pureVars>>

Next ==
    \/ Register
    \/ RegisterCommit
    \/ Login
    \/ GetProfile
    \/ UpdateProfile
    \/ ListUsers

Spec == Init /\ [][Next]_vars

-----------------------------------------------------------------------------
(* The utility functions on their own: a text is built one character at a  *)
(* time and handed to the function.                                        *)

AppendChar ==
    /\ ret = NoRet
    /\ Len(arg) < MaxArgLen
    /\ \E c \in PureChars : arg' = Append(arg, c)
    /\ UNCHANGED <<ret, httpVars>>

CallValidatePassword ==
    /\ ret = NoRet
    /\ LET vp == validate_password(arg) IN
        ret' = [fn |-> "validate_password", ok |-> vp[1], msg |-> vp[2],
                out |-> <<>>]
    /\ UNCHANGED <<arg, httpVars>>

NextUtils == AppendChar \/ CallValidatePassword

SpecUtils == Init /\ [][NextUtils]_vars

AppendTextChar ==
    /\ ret = NoRet
    /\ Len(arg) < MaxTextLen
    /\ \E c \in TextChars : arg' = Append(arg, c)
    /\ UNCHANGED <<ret, httpVars>>

\* sanitize_input(arg); the empty text stands for "" and for None alike.
CallSanitizeInput ==
    /\ ret = NoRet
    /\ ret' = [fn |-> "sanitize_input", ok |-> TRUE, msg |-> "",
               out |-> sanitize_text(arg)]
    /\ UNCHANGED <<arg, httpVars>>

NextSanitize == AppendTextChar \/ CallSanitizeInput

SpecSanitize == Init /\ [][NextSanitize]_vars

-----------------------------------------------------------------------------
(* Steps, as seen in the variables.                                        *)

\* This step answered a request of the route.
Answered(route) == last' # last /\ last'.req.route = route

RegisterAdmitted == BagCardinality(pending') > BagCardinality(pending)
RegisterCommitted == BagCardinality(pending') < BagCardinality(pending)
RegisterReturnedEarly == Answered("register") /\ pending' = pending

EmailTaken(tbl, r) == filter_by_email(tbl, sanitize_input(r.email)) # {}

ValidRegistration(r) ==
    /\ r.json
    /\ r.email.t # "absent"
    /\ validate_email(sanitize_input(r.email))
    /\ r.password.t = "str"
    /\ validate_password(r.password.s)[1]

-----------------------------------------------------------------------------
(* C1: no two user records have the same email; a register answered 201    *)
(* has created the one record of its email, and a register for an email    *)
(* that already has a record is answered 400 "User already exists" without *)
(* going on to the insert and without creating a record.                   *)

EmailsUnique ==
    \A i, j \in 1..Len(users) : users[i].email = users[j].email => i = j

CreatedOn201 ==
    (last.req.route = "register" /\ last.resp.status = 201) =>
        /\ last.resp.user_id \in 1..Len(users)
        /\ users[last.resp.user_id].email = sanitize_input(last.req.email)

SecondRejected ==
    /\ \A r \in RegisterRequests :
        (CopiesIn(r, pending') > CopiesIn(r, pending)) => ~EmailTaken(users, r)
    /\ (RegisterReturnedEarly /\ ValidRegistration(last'.req)
            /\ EmailTaken(users, last'.req)) =>
        /\ last'.resp = ErrorResponse(400, "User already exists")
        /\ users' = users

C1_UniqueEmail == [](EmailsUnique /\ CreatedOn201) /\ [][SecondRejected]_vars

C1_Witness ==
    /\ last.req.route = "register"
    /\ last.resp = ErrorResponse(400, "User already exists")
    /\ Len(users) = 2

(* C2: a register that reaches the commit when a record of its email       *)
(* exists (it lost the race) is answered 400 "User already exists".        *)
C2_RaceAnsweredUserExists ==
    [][(RegisterCommitted /\ EmailTaken(users, last'.req)) =>
            last'.resp = ErrorResponse(400, "User already exists")]_vars

(* C3: a login carrying an email and a password is answered 401 "Invalid   *)
(* credentials", the same response, when no user has the email and when    *)
(* the user exists and the password does not verify.                       *)
PasswordVerifies(tbl, r) ==
    /\ r.password.t = "str"
    /\ \E i \in filter_by_email(tbl, sanitize_input(r.email)) :
        check_password_hash(tbl[i].password, r.password.s)

C3_SameFailure ==
    (/\ last.req.route = "login"
     /\ last.req.json
     /\ last.req.email.t # "absent"
     /\ last.req.password.t # "absent"
     /\ ~PasswordVerifies(users, last.req)) =>
        last.resp = ErrorResponse(401, "Invalid credentials")

(* C4: login answers 200 only when a record exists for the looked-up email *)
(* and the password verifies against its hash; the token's subject is that *)
(* record's id.  The injection payloads are never answered 200.            *)
C4_LoginOnlyWithCredentials ==
    (last.req.route = "login" /\ last.resp.status = 200) =>
        /\ last.req.password.t = "str"
        /\ \E i \in 1..Len(users) :
            /\ users[i].email = sanitize_input(last.req.email)
            /\ check_password_hash(users[i].password, last.req.password.s)
            /\ last.resp.access_token = ValidToken(users[i].id)
        /\ last.req.email # EmailInject
        /\ last.req.password # PasswordInject

C4_Witness ==
    /\ last.req.route = "login"
    /\ last.resp.status = 200
    /\ last.resp.access_token = ValidToken(2)

(* C5: a request to a protected route without Authorization header is      *)
(* answered 401, one with a malformed token 422; the response carries no   *)
(* user record and the table is unchanged.                                 *)
ProtectedRoutes == {"get_profile", "update_profile", "list_users"}

RefusedBeforeHandler ==
    \A route \in ProtectedRoutes :
        (Answered(route) /\ last'.req.token.kind \in {"none", "malformed"}) =>
            /\ last'.resp.status = IF last'.req.token.kind = "none" THEN 401 ELSE 422
            /\ last'.resp.user = NoUser
            /\ last'.resp.users = <<>>
            /\ users' = users

C5_TokenRequired == [][RefusedBeforeHandler]_vars

C5_Witness ==
    /\ last.req.route = "update_profile"
    /\ last.req.token.kind = "malformed"
    /\ last.resp.status = 422
    /\ Len(users) = 2

(* C6: validate_password returns (False, reason) with the reason of the    *)
(* first violated rule in the order length, uppercase, lowercase, digit,   *)
(* special character, and (True, ...) exactly when no rule is violated.    *)
RuleHolds(i, p) ==
    CASE i = 1 -> Len(p) >= 8
      [] i = 2 -> \E k \in 1..Len(p) : p[k] \in UpperChars
      [] i = 3 -> \E k \in 1..Len(p) : p[k] \in LowerChars
      [] i = 4 -> \E k \in 1..Len(p) : p[k] \in DigitChars
      [] i = 5 -> \E k \in 1..Len(p) : p[k] \in SpecialChars

RuleReason == <<MsgTooShort, MsgNoUpper, MsgNoLower, MsgNoDigit, MsgNoSpecial>>

C6_FirstViolatedRule ==
    (ret.fn = "validate_password") =>
        LET violated == {i \in 1..5 : ~RuleHolds(i, arg)} IN
        IF violated = {} THEN ret.ok
        ELSE /\ ~ret.ok
             /\ ret.msg = RuleReason[CHOOSE i \in violated : \A j \in violated : i <= j]

C6_Witness ==
    /\ ret.fn = "validate_password"
    /\ ~RuleHolds(3, arg) /\ ~RuleHolds(5, arg)
    /\ RuleHolds(1, arg) /\ RuleHolds(2, arg)
    /\ ret.msg = MsgNoLower

(* C7: the username of a record register created is sanitize applied to    *)
(* the supplied username (to the local part of the email when none is      *)
(* supplied), and holds no raw "<script>".                                 *)
C7_RegisterSanitizesUsername ==
    (last.req.route = "register" /\ last.resp.status = 201) =>
        LET stored == users[last.resp.user_id].username
            given  == IF last.req.username.t = "absent"
                      THEN SplitFirst(sanitize_input(last.req.email), "@")
                      ELSE last.req.username.s
        IN /\ stored = sanitize_text(given)
           /\ ~Contains(stored, <<"<","s","c","r","i","p","t",">">>)

(* C8: PUT /api/profile changes at most the username of the record of the  *)
(* token's subject, only to the sanitized value and only when that has     *)
(* length >= 3; when it is shorter the answer is 400 and nothing changes.  *)
OnlyUsernameOfSubject ==
    (last'.req.route = "update_profile" /\ (last' # last \/ users' # users)) =>
        LET r    == last'.req
            name == sanitize_input(r.username)
        IN
        /\ Len(users') = Len(users)
        /\ \A i \in 1..Len(users) :
            /\ users'[i].id = users[i].id
            /\ users'[i].email = users[i].email
            /\ users'[i].password = users[i].password
            /\ users'[i].created_at = users[i].created_at
            /\ users'[i].username # users[i].username =>
                /\ r.token = ValidToken(i)
                /\ r.username.t # "absent"
                /\ users'[i].username = name
                /\ Len(name) >= 3
        /\ (r.json /\ r.token.kind = "valid" /\ r.username.t # "absent"
                /\ Len(name) < 3) =>
            /\ last'.resp.status = 400
            /\ users' = users

C8_UpdateFrame == [][OnlyUsernameOfSubject]_vars

C8_Witness ==
    /\ last.req.route = "update_profile"
    /\ last.resp.status = 200
    /\ last.req.token = ValidToken(2)
    /\ Len(users) = 2
    /\ users[2].username = sanitize_input(UsernameBold)
    /\ users[2].username # UsernameBold.s
    /\ users[1].username # users[2].username

(* C9: a step of a register handler changes the table only when it is the  *)
(* commit that is answered 201.                                            *)
FailedRegisterChangesNothing ==
    ((RegisterAdmitted \/ RegisterCommitted \/ Answered("register"))
        /\ ~(RegisterCommitted /\ last'.resp.status = 201)) =>
            users' = users

C9_FailedRegisterNoWrite == [][FailedRegisterChangesNothing]_vars

C9_Witness ==
    /\ last.req.route = "register"
    /\ last.resp.status = 500
    /\ ValidRegistration(last.req)
    /\ EmailTaken(users, last.req)

(* C10: a register request whose body is declared JSON and does not parse  *)
(* is answered 400 or 415.                                                 *)
C10_MalformedJsonClientError ==
    (last.req.route = "register" /\ ~last.req.json) =>
        last.resp.status \in {400, 415}

(* C11: the output of sanitize_input holds none of the raw characters      *)
(* '<', '>', '"' and "'", hence no raw "<script>", and is the empty text   *)
(* for empty or absent input.                                              *)
RawMarkupChars == {"<", ">", "\"", "'"}

C11_NoRawMarkup ==
    (ret.fn = "sanitize_input") =>
        /\ \A i \in 1..Len(ret.out) : ret.out[i] \notin RawMarkupChars
        /\ ~Contains(ret.out, <<"<","s","c","r","i","p","t",">">>)
        /\ arg = <<>> => ret.out = <<>>

C11_Witness ==
    /\ ret.fn = "sanitize_input"
    /\ \A c \in RawMarkupChars : \E i \in 1..Len(arg) : arg[i] = c
    /\ ret.out # <<>>

(* C12: after register answered 201 for email e and password p, a login   *)
(* with the same e and p is answered 200 with a token for the new user,    *)
(* and GET /api/profile with that token is answered 200 with the email of  *)
(* that user.                                                              *)
LoginAfterRegister ==
    Answered("login") =>
        \A i \in 1..Len(submitted) :
            (/\ last'.req.json
             /\ last'.req.email = submitted[i].email
             /\ last'.req.password = submitted[i].password) =>
                /\ last'.resp.status = 200
                /\ last'.resp.access_token = ValidToken(i)

\* This step answers GET /api/profile for the token that the login just
\* before it returned, a login with the e and p of user i's registration.
ProfileWithLoginToken(i) ==
    /\ last.req.route = "login"
    /\ last.resp.status = 200
    /\ last.req.email = submitted[i].email
    /\ last.req.password = submitted[i].password
    /\ Answered("get_profile")
    /\ last'.req.token = last.resp.access_token

\* The email of the profile is e as it was submitted to register.
C12_RoundTripAsSubmitted ==
    [][/\ LoginAfterRegister
       /\ \A i \in 1..Len(submitted) : ProfileWithLoginToken(i) =>
            /\ last'.resp.status = 200
            /\ last'.resp.user.email = submitted[i].email.s]_vars

\* The email of the profile is what sanitize_input makes of e.
C12_RoundTripSanitized ==
    [][/\ LoginAfterRegister
       /\ \A i \in 1..Len(submitted) : ProfileWithLoginToken(i) =>
            /\ last'.resp.status = 200
            /\ last'.resp.user.id = i
            /\ last'.resp.user.email = sanitize_input(submitted[i].email)]_vars

C12_Witness ==
    /\ last.req.route = "get_profile"
    /\ last.resp.status = 200
    /\ submitted[last.req.token.sub].email = EmailADash
    /\ last.resp.user.email = sanitize_input(EmailADash)
    /\ last.resp.user.email # EmailADash.s

=============================================================================
